---------------------------- MODULE Spec2Model ----------------------------
(***************************************************************************)
(* A model of src/main/options-normalizer.js: the mapping of option        *)
(* descriptors (optionInfos) to vnopts schemas, the FlagSchema, the CLI    *)
(* descriptor strategy and the two exported entry points.                  *)
(*                                                                         *)
(* JavaScript values are records tagged with `kind`; a JavaScript string   *)
(* is Str(s) with s a sequence of one-character strings, so that length,   *)
(* concatenation, ordering and edit distance are computed, not assumed.    *)
(* vnopts.normalize is external: a call of it is recorded with its         *)
(* arguments (normalizeArgs), and the callbacks it makes into this module  *)
(* (preprocess, validate, the unknown handler, descriptor.pair) are        *)
(* actions enabled while it runs (pc = "engine").                          *)
(***************************************************************************)
EXTENDS Integers, Sequences, FiniteSets

VARIABLES
  optionInfos,    \* the caller's descriptor list (caller-owned objects)
  pc,             \* "idle" | "engine" (inside vnopts.normalize)
  call,           \* the current or last entry-point call: its name and opts
  normalizeArgs,  \* arguments of this call's vnopts.normalize, or NoCall
  outcome,        \* completion of the current or last call
  logged,         \* logger.warn writes made during the current call
  ret             \* the last callback made by the engine, with its result

vars == <<optionInfos, pc, call, normalizeArgs, outcome, logged, ret>>

\* --------------------------------------------------------------- bounds
MaxInfos == 2      \* longest descriptor list
MaxWarn == 2       \* most warnings logged in one call

\* ---------------------------------------------------- JavaScript values
Absent == [kind |-> "absent"]          \* a property the object does not have
Undefined == [kind |-> "undefined"]
Null == [kind |-> "null"]
Bool(b) == [kind |-> "boolean", val |-> b]
Num(n) == [kind |-> "number", val |-> n]
Str(s) == [kind |-> "string", val |-> s]
Arr(a) == [kind |-> "array", val |-> a]
Fn(accepts) == [kind |-> "function", accepts |-> accepts]
Logger == [kind |-> "object", logger |-> "logger"]

\* Reading a property: a missing one reads as undefined.
Get(v) == IF v = Absent THEN Undefined ELSE v

\* ToBoolean, as `x ? :`, `!x`, `x && y`, `x || y` and `if (x)` apply it.
Truthy(v) ==
  CASE v.kind = "absent" -> FALSE
    [] v.kind = "undefined" -> FALSE
    [] v.kind = "null" -> FALSE
    [] v.kind = "boolean" -> v.val
    [] v.kind = "number" -> v.val # 0
    [] v.kind = "string" -> Len(v.val) # 0
    [] OTHER -> TRUE

Digits == <<"0", "1", "2", "3", "4", "5", "6", "7", "8", "9">>

\* ToString of a template literal `${value}`, on the values modelled
\* (numbers are the single digits 0..9).
ToString(v) ==
  CASE v.kind = "string" -> v.val
    [] v.kind = "number" -> <<Digits[v.val + 1]>>
    [] v.kind = "boolean" ->
         IF v.val THEN <<"t", "r", "u", "e">> ELSE <<"f", "a", "l", "s", "e">>
    [] v.kind = "null" -> <<"n", "u", "l", "l">>
    [] OTHER -> <<"u", "n", "d", "e", "f", "i", "n", "e", "d">>

\* UTF-16 code units of the characters that occur in flag names.
CodeUnit(c) ==
  CASE c = "-" -> 45
    [] c = "a" -> 97
    [] c = "b" -> 98
    [] c = "c" -> 99
    [] c = "d" -> 100
    [] c = "n" -> 110
    [] c = "o" -> 111
    [] c = "x" -> 120
    [] OTHER -> 122

\* s sorts strictly before t under Array.prototype.sort's default order
\* (code-unit lexicographic; a proper prefix sorts first).
RECURSIVE StrLess(_, _)
StrLess(s, t) ==
  IF t = <<>> THEN FALSE
  ELSE IF s = <<>> THEN TRUE
  ELSE IF CodeUnit(Head(s)) # CodeUnit(Head(t))
       THEN CodeUnit(Head(s)) < CodeUnit(Head(t))
  ELSE StrLess(Tail(s), Tail(t))

\* Insert string value v into the sorted sequence of string values a.
RECURSIVE SortedInsert(_, _)
SortedInsert(a, v) ==
  IF a = <<>> THEN <<v>>
  ELSE IF StrLess(v.val, Head(a).val) THEN <<v>> \o a
  ELSE <<Head(a)>> \o SortedInsert(Tail(a), v)

\* Array.prototype.sort() without a comparator, on an array of strings.
RECURSIVE ArraySort(_)
ArraySort(a) ==
  IF a = <<>> THEN <<>>
  ELSE SortedInsert(ArraySort(SubSeq(a, 1, Len(a) - 1)), a[Len(a)])

Min2(a, b) == IF a < b THEN a ELSE b

\* leven(a, b): the Levenshtein distance of two strings.
RECURSIVE leven(_, _)
leven(a, b) ==
  IF a = <<>> THEN Len(b)
  ELSE IF b = <<>> THEN Len(a)
  ELSE IF Head(a) = Head(b) THEN leven(Tail(a), Tail(b))
  ELSE 1 + Min2(leven(Tail(a), Tail(b)),
                Min2(leven(Tail(a), b), leven(a, Tail(b))))

\* ------------------------------------------------------- cliDescriptor
cliDescriptor_key(key) ==
  IF Len(key) = 1 THEN <<"-">> \o key ELSE <<"-", "-">> \o key

cliDescriptor_pair_loose(key, value) ==
  IF ~Truthy(value)
    THEN <<"-", "-", "n", "o", "-">> \o key
  ELSE IF value = Bool(TRUE)
    THEN cliDescriptor_key(key)
  ELSE IF value = Str(<<>>)
    THEN cliDescriptor_key(key) \o <<" without an argument">>
  ELSE cliDescriptor_key(key) \o <<"=">> \o ToString(value)

\* pair({ key, value }): strict equality against false, true and "".
cliDescriptor_pair(key, value) ==
  IF value = Bool(FALSE)
    THEN <<"-", "-", "n", "o", "-">> \o key
  ELSE IF value = Bool(TRUE)
    THEN cliDescriptor_key(key)
  ELSE IF value = Str(<<>>)
    THEN cliDescriptor_key(key) \o <<" without an argument">>
  ELSE cliDescriptor_key(key) \o <<"=">> \o ToString(value)

\* ----------------------------------------------------------- FlagSchema
Threshold == 3     \* leven(flag, value) < 3

\* new FlagSchema({ name, flags }): super({ name, choices: flags }) and
\* this._flags = flags.slice().sort().  The sort reorders the copy made by
\* slice(), so `flags` (also handed to super as `choices`) keeps its order.
FlagSchema_new(name, flags) ==
  [choices |-> flags,
   flags |-> flags,
   _flags |-> ArraySort(flags)]

\* Array.prototype.find: the first element with leven(flag, value) < 3,
\* or undefined.
RECURSIVE FindSuggestion(_, _)
FindSuggestion(flags, value) ==
  IF flags = <<>> THEN Undefined
  ELSE IF leven(Head(flags).val, value.val) < Threshold THEN Head(flags)
  ELSE FindSuggestion(Tail(flags), value)

\* Array.prototype.indexOf(value) === -1
NotIn(a, value) == \A i \in 1..Len(a) : a[i] # value

\* FlagSchema.preprocess(value, utils): the value returned and the
\* warnings written to utils.logger.
FlagSchema_preprocess(self, value) ==
  IF value.kind = "string" /\ Len(value.val) # 0
     /\ NotIn(self._flags.val, value)
  THEN LET suggestion == FindSuggestion(self._flags.val, value)
       IN IF Truthy(suggestion)
          THEN [result |-> suggestion,
                warn |-> <<[unknown |-> value, suggestion |-> suggestion]>>]
          ELSE [result |-> value, warn |-> <<>>]
  ELSE [result |-> value, warn |-> <<>>]

\* ------------------------------------------------------- Schema Builder
Throw(error, infoAfter) ==
  [completion |-> "throw", value |-> error, optionInfo |-> infoAfter]

Normal(value, infoAfter) ==
  [completion |-> "normal", value |-> value, optionInfo |-> infoAfter]

\* new Error(`Unexpected type ${optionInfo.type}`)
UnexpectedType(type) == [name |-> "Error", message |-> <<"Unexpected type ", type>>]

\* What evaluating `optionInfo.choices.map` throws when choices is undefined.
MapOfUndefined ==
  [name |-> "TypeError", message |-> <<"Cannot read property 'map' of ", "undefined">>]

\* The engine's redirect shape for a choice: { to: { key, value } }.
ChoiceRedirect(optionInfo, choiceInfo) ==
  [kind |-> "object",
   to |-> [key |-> optionInfo.name, value |-> choiceInfo.redirect]]

\* Object.assign(choiceInfo, { redirect }): the rewrite made on the
\* descriptor's own choice record.
MapChoiceInfoInPlace(optionInfo, choiceInfo) ==
  IF choiceInfo.kind = "object" /\ Truthy(choiceInfo.redirect)
  THEN [result |-> [choiceInfo EXCEPT !.redirect = ChoiceRedirect(optionInfo, choiceInfo)],
        source |-> [choiceInfo EXCEPT !.redirect = ChoiceRedirect(optionInfo, choiceInfo)]]
  ELSE [result |-> choiceInfo, source |-> choiceInfo]

\* The callback of optionInfo.choices.map: `result` is the element of the
\* new array; `source` is the descriptor's choice record afterwards, which
\* Object.assign({}, choiceInfo, ...) only reads (its target is a new {}).
MapChoiceInfo(optionInfo, choiceInfo) ==
  IF choiceInfo.kind = "object" /\ Truthy(choiceInfo.redirect)
  THEN [result |-> [choiceInfo EXCEPT !.redirect = ChoiceRedirect(optionInfo, choiceInfo)],
        source |-> choiceInfo]
  ELSE [result |-> choiceInfo, source |-> choiceInfo]

\* The flag names one descriptor contributes: [].concat(alias || [],
\* description ? name : [], oppositeDescription ? `no-${name}` : []).
FlagsOfInfo(info) ==
  (IF Truthy(info.alias) THEN <<info.alias>> ELSE <<>>)
  \o (IF Truthy(info.description) THEN <<info.name>> ELSE <<>>)
  \o (IF Truthy(info.oppositeDescription)
      THEN <<Str(<<"n", "o", "-">> \o ToString(info.name))>> ELSE <<>>)

\* optionInfos.map(...).reduce((a, b) => a.concat(b), [])
RECURSIVE CollectFlags(_)
CollectFlags(infos) ==
  IF infos = <<>> THEN <<>>
  ELSE FlagsOfInfo(Head(infos)) \o CollectFlags(Tail(infos))

\* The switch on optionInfo.type: the constructor and the kind-specific
\* parameters, or the throw.
TypeSwitch(optionInfo, isCLI, infos) ==
  CASE optionInfo.type = "int" ->
         Normal([ctor |-> "IntegerSchema",
                 preprocess |-> IF Truthy(isCLI) THEN Fn("Number") ELSE Absent,
                 choices |-> Absent, flags |-> Absent], optionInfo)
    [] optionInfo.type = "choice" ->
         IF optionInfo.choices.kind # "array"
         THEN Throw(MapOfUndefined, optionInfo)
         ELSE LET c == optionInfo.choices.val
                  m == [i \in 1..Len(c) |-> MapChoiceInfo(optionInfo, c[i])]
              IN Normal([ctor |-> "ChoiceSchema", preprocess |-> Absent,
                         choices |-> Arr([i \in 1..Len(c) |-> m[i].result]),
                         flags |-> Absent],
                        [optionInfo EXCEPT
                           !.choices = Arr([i \in 1..Len(c) |-> m[i].source])])
    [] optionInfo.type = "boolean" ->
         Normal([ctor |-> "BooleanSchema", preprocess |-> Absent,
                 choices |-> Absent, flags |-> Absent], optionInfo)
    [] optionInfo.type = "flag" ->
         Normal([ctor |-> "FlagSchema", preprocess |-> Absent,
                 choices |-> Absent, flags |-> Arr(CollectFlags(infos))],
                optionInfo)
    [] optionInfo.type = "path" ->
         Normal([ctor |-> "StringSchema", preprocess |-> Absent,
                 choices |-> Absent, flags |-> Absent], optionInfo)
    [] OTHER -> Throw(UnexpectedType(optionInfo.type), optionInfo)

NoSchema == [ctor |-> "none"]

\* SchemaConstructor.create(parameters): the schema with the parameters it
\* was created from; a FlagSchema also runs its constructor.
Create(ctor, p) ==
  [ctor |-> ctor, name |-> p.name, sourceName |-> Absent,
   preprocess |-> p.preprocess, validate |-> p.validate,
   choices |-> IF ctor = "FlagSchema"
               THEN Arr(FlagSchema_new(p.name, p.flags.val).choices)
               ELSE p.choices,
   flags |-> IF ctor = "FlagSchema"
             THEN Arr(FlagSchema_new(p.name, p.flags.val).flags)
             ELSE Absent,
   _flags |-> IF ctor = "FlagSchema"
              THEN Arr(FlagSchema_new(p.name, p.flags.val)._flags)
              ELSE Absent,
   redirect |-> p.redirect, deprecated |-> p.deprecated,
   valueSchema |-> NoSchema]

\* parameters.validate without an exception:
\*   value === undefined || schema.validate(value, utils)
ValidateDefault == [kind |-> "function", fn |-> "undefinedOrValidate"]

\* parameters.validate with an exception:
\*   optionInfo.exception(value) || schema.validate(value, utils)
ValidateException(exception) ==
  [kind |-> "function", fn |-> "exceptionOrValidate", exception |-> exception]

\* handlers.redirect: value => !value ? undefined : { to: { key, value } }
RedirectHandler(redirect) ==
  [kind |-> "function", fn |-> "redirect",
   to |-> [key |-> redirect.option, value |-> redirect.value]]

optionInfoToSchema(optionInfo, isCLI, infos) ==
  LET t == TypeSwitch(optionInfo, isCLI, infos)
  IN IF t.completion = "throw" THEN t
     ELSE
       LET validate == IF Truthy(optionInfo.exception)
                       THEN ValidateException(optionInfo.exception)
                       ELSE ValidateDefault
           redirect == IF Truthy(optionInfo.redirect)
                       THEN RedirectHandler(optionInfo.redirect) ELSE Absent
           deprecated == IF Truthy(optionInfo.deprecated)
                         THEN Bool(TRUE) ELSE Absent
           parameters == [name |-> optionInfo.name,
                          preprocess |-> t.value.preprocess,
                          choices |-> t.value.choices,
                          flags |-> t.value.flags,
                          validate |-> validate]
           NoHandlers == [redirect |-> Absent, deprecated |-> Absent]
           handlers == [redirect |-> redirect, deprecated |-> deprecated]
           Merge(p, h) == [name |-> p.name, preprocess |-> p.preprocess,
                           choices |-> p.choices, flags |-> p.flags,
                           validate |-> p.validate,
                           redirect |-> h.redirect, deprecated |-> h.deprecated]
       IN IF Truthy(optionInfo.array)
          THEN Normal(
                 [ctor |-> "ArraySchema", name |-> Absent, sourceName |-> Absent,
                  preprocess |-> IF Truthy(isCLI) THEN Fn("concat") ELSE Absent,
                  validate |-> Absent, choices |-> Absent, flags |-> Absent,
                  _flags |-> Absent,
                  redirect |-> redirect, deprecated |-> deprecated,
                  valueSchema |-> Create(t.value.ctor, Merge(parameters, NoHandlers))],
                 t.optionInfo)
          ELSE Normal(Create(t.value.ctor, Merge(parameters, handlers)),
                      t.optionInfo)

\* vnopts.AnySchema.create({ name: "_" })
AnySchema ==
  [ctor |-> "AnySchema", name |-> Str(<<"_">>), sourceName |-> Absent,
   preprocess |-> Absent, validate |-> Absent, choices |-> Absent,
   flags |-> Absent, _flags |-> Absent, redirect |-> Absent,
   deprecated |-> Absent, valueSchema |-> NoSchema]

\* vnopts.AliasSchema.create({ name: alias, sourceName: name })
AliasSchema(alias, name) ==
  [ctor |-> "AliasSchema", name |-> alias, sourceName |-> name,
   preprocess |-> Absent, validate |-> Absent, choices |-> Absent,
   flags |-> Absent, _flags |-> Absent, redirect |-> Absent,
   deprecated |-> Absent, valueSchema |-> NoSchema]

\* The loop with the alias schema pushed whenever an alias is declared,
\* whatever the mode.
RECURSIVE SchemaLoopAliasAlways(_, _, _, _)
SchemaLoopAliasAlways(i, infos, schemas, isCLI) ==
  IF i > Len(infos)
  THEN [completion |-> "normal", value |-> schemas, optionInfos |-> infos]
  ELSE LET r == optionInfoToSchema(infos[i], isCLI, infos)
           after == [infos EXCEPT ![i] = r.optionInfo]
       IN IF r.completion = "throw"
          THEN [completion |-> "throw", value |-> r.value, optionInfos |-> after]
          ELSE SchemaLoopAliasAlways(
                 i + 1, after,
                 schemas \o <<r.value>>
                   \o (IF Truthy(infos[i].alias)
                       THEN <<AliasSchema(infos[i].alias, infos[i].name)>>
                       ELSE <<>>),
                 isCLI)

\* The for-of loop of optionInfosToSchemas from descriptor i on; `infos` is
\* the descriptor list as it stands, `schemas` what was pushed so far.
RECURSIVE SchemaLoop(_, _, _, _)
SchemaLoop(i, infos, schemas, isCLI) ==
  IF i > Len(infos)
  THEN [completion |-> "normal", value |-> schemas, optionInfos |-> infos]
  ELSE LET r == optionInfoToSchema(infos[i], isCLI, infos)
           after == [infos EXCEPT ![i] = r.optionInfo]
       IN IF r.completion = "throw"
          THEN [completion |-> "throw", value |-> r.value, optionInfos |-> after]
          ELSE SchemaLoop(
                 i + 1, after,
                 schemas \o <<r.value>>
                   \o (IF Truthy(infos[i].alias) /\ Truthy(isCLI)
                       THEN <<AliasSchema(infos[i].alias, infos[i].name)>>
                       ELSE <<>>),
                 isCLI)

optionInfosToSchemas(infos, isCLI) ==
  SchemaLoop(1, infos, IF Truthy(isCLI) THEN <<AnySchema>> ELSE <<>>, isCLI)

\* ----------------------------------------------------------- Normalizer
\* An opts object; a field is Absent when the object has no such property.
Opts(logger, isCLI, passThrough) ==
  [kind |-> "object", logger |-> logger, isCLI |-> isCLI,
   passThrough |-> passThrough]

NoOpts == Opts(Absent, Absent, Absent)

\* A destructuring default `x = d`: d replaces a missing or undefined x.
Default(v, d) == IF v \in {Absent, Undefined} THEN d ELSE v

\* Object.assign(target, source) on opts objects: every own property of
\* source, an undefined-valued one included, overwrites target's; an
\* undefined or null source copies nothing.
ObjectAssign(target, source) ==
  IF source \in {Undefined, Null} THEN target
  ELSE Opts(IF source.logger = Absent THEN target.logger ELSE source.logger,
            IF source.isCLI = Absent THEN target.isCLI ELSE source.isCLI,
            IF source.passThrough = Absent THEN target.passThrough
            ELSE source.passThrough)

\* The choice of handler without the Array.isArray test: every truthy
\* passThrough passes all unknown keys through.
UnknownPolicyNoArray(passThrough) ==
  IF ~Truthy(passThrough)
  THEN [kind |-> "function", fn |-> "levenUnknownHandler"]
  ELSE [kind |-> "function", fn |-> "passThroughAll"]

\* The `unknown` handler chosen from passThrough (lines 54-59).
UnknownPolicy(passThrough) ==
  IF ~Truthy(passThrough)
  THEN [kind |-> "function", fn |-> "levenUnknownHandler"]
  ELSE IF passThrough.kind = "array"
  THEN [kind |-> "function", fn |-> "passThroughList", passThrough |-> passThrough]
  ELSE [kind |-> "function", fn |-> "passThroughAll"]

\* The object literal { [key]: value }.
Obj(key, value) == [kind |-> "object", props |-> {<<key, value>>}]

\* Calling the pass-through handlers built at lines 57-59; vnopts' own
\* levenUnknownHandler is external and its result is left to the engine.
CallUnknown(unknown, key, value) ==
  CASE unknown.fn = "passThroughList" ->
         IF NotIn(unknown.passThrough.val, key) THEN Undefined
         ELSE Obj(key, value)
    [] unknown.fn = "passThroughAll" -> Obj(key, value)
    [] OTHER -> [kind |-> "external", fn |-> unknown.fn]

\* normalizeOptions up to its call of vnopts.normalize: a throw, or the
\* arguments handed to vnopts.normalize.
normalizeOptions(infos, opts) ==
  LET o == IF opts = Undefined THEN NoOpts ELSE opts
      logger == Get(o.logger)
      isCLI == Default(o.isCLI, Bool(FALSE))
      passThrough == Default(o.passThrough, Bool(FALSE))
      unknown == UnknownPolicy(passThrough)
      descriptor == IF Truthy(isCLI) THEN "cliDescriptor" ELSE "apiDescriptor"
      built == optionInfosToSchemas(infos, isCLI)
  IN IF built.completion = "throw" THEN built
     ELSE [completion |-> "delegate",
           value |-> [schemas |-> built.value, logger |-> logger,
                      unknown |-> unknown, descriptor |-> descriptor],
           optionInfos |-> built.optionInfos]

normalizeApiOptions(infos, opts) == normalizeOptions(infos, opts)

normalizeCliOptions(infos, opts) ==
  normalizeOptions(infos, ObjectAssign(Opts(Absent, Bool(TRUE), Absent), opts))

\* -------------------------------------------------------------- actions
NoCall == [kind |-> "none"]
NoRet == [fn |-> "none"]

\* An entry point runs to its throw or into vnopts.normalize.
Enter(fn, opts, r) ==
  /\ call' = [fn |-> fn, opts |-> opts]
  /\ optionInfos' = r.optionInfos
  /\ logged' = <<>>
  /\ ret' = NoRet
  /\ IF r.completion = "throw"
     THEN /\ pc' = "idle"
          /\ normalizeArgs' = NoCall
          /\ outcome' = [completion |-> "throw", value |-> r.value]
     ELSE /\ pc' = "engine"
          /\ normalizeArgs' = r.value
          /\ outcome' = [completion |-> "pending"]

NormalizeApiOptions(opts) ==
  /\ pc = "idle"
  /\ Enter("normalizeApiOptions", opts, normalizeApiOptions(optionInfos, opts))

NormalizeCliOptions(opts) ==
  /\ pc = "idle"
  /\ Enter("normalizeCliOptions", opts, normalizeCliOptions(optionInfos, opts))

\* vnopts.normalize returns its mapping, which the entry point returns.
NormalizeReturn ==
  /\ pc = "engine"
  /\ pc' = "idle"
  /\ outcome' = [completion |-> "normal", value |-> "normalized"]
  /\ ret' = NoRet
  /\ UNCHANGED <<optionInfos, call, normalizeArgs, logged>>

\* The schema that carries the parameters this module built: the schema
\* itself, or the element schema of an array option (line 167).
ModuleSchema(schema) ==
  IF schema.ctor = "ArraySchema" THEN schema.valueSchema ELSE schema

\* The name a schema answers to (an ArraySchema takes its element's).
SchemaName(schema) == ModuleSchema(schema).name

\* The engine preprocesses a value of flag option i (FlagSchema.preprocess).
Preprocess(i, value) ==
  /\ pc = "engine"
  /\ i \in 1..Len(normalizeArgs.schemas)
  /\ ModuleSchema(normalizeArgs.schemas[i]).ctor = "FlagSchema"
  /\ LET r == FlagSchema_preprocess(ModuleSchema(normalizeArgs.schemas[i]), value)
     IN /\ Len(logged) + Len(r.warn) <= MaxWarn
        /\ logged' = logged \o r.warn
        /\ ret' = [fn |-> "preprocess", schema |-> i, value |-> value,
                   result |-> r.result, warned |-> Len(r.warn)]
  /\ UNCHANGED <<optionInfos, pc, call, normalizeArgs, outcome>>

\* The engine meets a key no schema answers to and calls `unknown`.
Unknown(key, value) ==
  /\ pc = "engine"
  /\ \A i \in 1..Len(normalizeArgs.schemas) :
       SchemaName(normalizeArgs.schemas[i]) # key
  /\ ret' = [fn |-> "unknown", key |-> key, value |-> value,
             result |-> CallUnknown(normalizeArgs.unknown, key, value)]
  /\ UNCHANGED <<optionInfos, pc, call, normalizeArgs, outcome, logged>>

\* The values of a ChoiceSchema's choices (a choice record gives its value).
ChoiceValues(choices) ==
  {IF choices[i].kind = "object" THEN choices[i].value ELSE choices[i] :
     i \in 1..Len(choices)}

\* schema.validate(value, utils) of the vnopts schema kinds: what each kind
\* accepts by its own rule.
SchemaValidate(schema, value) ==
  CASE schema.ctor = "IntegerSchema" -> value.kind = "number"
    [] schema.ctor = "BooleanSchema" -> value.kind = "boolean"
    [] schema.ctor = "StringSchema" -> value.kind = "string"
    [] OTHER -> value \in ChoiceValues(schema.choices.val)

\* optionInfo.exception(value): the predicate is given by the values it
\* accepts.
CallException(exception, value) == value \in exception.accepts

\* parameters.validate without the `value === undefined ||` of line 142.
CallValidateStrict(schema, value) ==
  IF schema.validate.fn = "exceptionOrValidate"
  THEN CallException(schema.validate.exception, value)
       \/ SchemaValidate(schema, value)
  ELSE SchemaValidate(schema, value)

\* parameters.validate(value, schema, utils), lines 136-144.
CallValidate(schema, value) ==
  IF schema.validate.fn = "exceptionOrValidate"
  THEN CallException(schema.validate.exception, value)
       \/ SchemaValidate(schema, value)
  ELSE value = Undefined \/ SchemaValidate(schema, value)

\* The engine validates a value of option i.
Validate(i, value) ==
  /\ pc = "engine"
  /\ i \in 1..Len(normalizeArgs.schemas)
  /\ ModuleSchema(normalizeArgs.schemas[i]).validate # Absent
  /\ ret' = [fn |-> "validate", schema |-> i, value |-> value,
             result |-> CallValidate(ModuleSchema(normalizeArgs.schemas[i]), value)]
  /\ UNCHANGED <<optionInfos, pc, call, normalizeArgs, outcome, logged>>

\* The engine renders a key/value pair for a message (descriptor.pair).
Pair(key, value) ==
  /\ pc = "engine"
  /\ normalizeArgs.descriptor = "cliDescriptor"
  /\ ret' = [fn |-> "pair", key |-> key, value |-> value,
             result |-> cliDescriptor_pair(key, value)]
  /\ UNCHANGED <<optionInfos, pc, call, normalizeArgs, outcome, logged>>

\* ------------------------------------------------------- input universes
Info(name, type, array, alias, choices, description, oppositeDescription, exception, redirect, deprecated) ==
  [name |-> name, type |-> type, array |-> array, alias |-> alias,
   choices |-> choices, description |-> description,
   oppositeDescription |-> oppositeDescription, exception |-> exception,
   redirect |-> redirect, deprecated |-> deprecated]

RecognizedTypes == {"int", "choice", "boolean", "flag", "path"}

\* A choice record { value: "y", redirect: "x" } and a plain choice "x".
ChoiceX == Str(<<"x">>)
ChoiceY == [kind |-> "object", value |-> Str(<<"y">>), redirect |-> Str(<<"x">>)]
Special == Str(<<"s">>)

\* The names of the descriptors of a list, by position: unique, as §3 asks.
Letters == <<"a", "b", "c", "d">>
NameAt(i) == Str(<<Letters[i]>>)

\* type and choices: the five kinds and one unrecognized type; a choice
\* descriptor without choices, with none, and with a redirecting choice.
TypeShapes ==
  {[type |-> t, choices |-> Undefined] :
     t \in {"int", "boolean", "flag", "path", "string"}}
  \cup {[type |-> "choice", choices |-> c] :
          c \in {Undefined, Arr(<<>>), Arr(<<ChoiceX, ChoiceY>>)}}

\* The attributes that do not depend on the type: none set; an empty alias
\* alone; every one of them set.
Profiles ==
  {[alias |-> Undefined, array |-> Undefined, description |-> Undefined,
    oppositeDescription |-> Undefined, exception |-> Undefined,
    redirect |-> Undefined, deprecated |-> Undefined],
   [alias |-> Str(<<>>), array |-> Undefined, description |-> Undefined,
    oppositeDescription |-> Undefined, exception |-> Undefined,
    redirect |-> Undefined, deprecated |-> Undefined],
   [alias |-> Str(<<"x">>), array |-> Bool(TRUE), description |-> Str(<<"d">>),
    oppositeDescription |-> Str(<<"o">>), exception |-> Fn({Special}),
    redirect |-> [kind |-> "object", option |-> Str(<<"t">>), value |-> Bool(TRUE)],
    deprecated |-> Bool(TRUE)]}

BuildShapes == {[t |-> t, p |-> p] : t \in TypeShapes, p \in Profiles}

ShapeInfo(sh, name) ==
  Info(name, sh.t.type, sh.p.array, sh.p.alias, sh.t.choices,
       sh.p.description, sh.p.oppositeDescription, sh.p.exception,
       sh.p.redirect, sh.p.deprecated)

\* The descriptor lists of at most MaxInfos descriptors over a set of shapes.
InfoLists(shapes) ==
  UNION {{[i \in 1..n |-> ShapeInfo(l[i], NameAt(i))] : l \in [1..n -> shapes]} :
           n \in 0..MaxInfos}

BuildOpts ==
  {Undefined}
  \cup {Opts(Absent, c, Absent) : c \in {Undefined, Bool(TRUE), Bool(FALSE)}}

\* ------------------------------------------------------- specifications
InitWith(lists) ==
  /\ optionInfos \in lists
  /\ pc = "idle"
  /\ call = [fn |-> "none", opts |-> Undefined]
  /\ normalizeArgs = NoCall
  /\ outcome = [completion |-> "none"]
  /\ logged = <<>>
  /\ ret = NoRet

\* Calls of the two entry points on a descriptor list.
Init == InitWith(InfoLists(BuildShapes))

Next ==
  \/ \E opts \in BuildOpts : NormalizeApiOptions(opts)
  \/ \E opts \in BuildOpts : NormalizeCliOptions(opts)
  \/ NormalizeReturn

Spec == Init /\ [][Next]_vars

\* ------------------------------------------------- claims checked in Spec
Called == call.fn # "none"
Delegated == normalizeArgs # NoCall
Unrecognized(i) == optionInfos[i].type \notin RecognizedTypes
CliMode == normalizeArgs.descriptor = "cliDescriptor"
Schemas == normalizeArgs.schemas
SchemaCtors == {Schemas[i].ctor : i \in 1..Len(Schemas)}

\* Some schema carries a CLI pre-coercion (Number for an integer, concat
\* for an array).
Precoerced ==
  \E i \in 1..Len(Schemas) :
    \/ Schemas[i].preprocess # Absent
    \/ ModuleSchema(Schemas[i]).preprocess # Absent

\* C1: a call whose descriptor list holds a descriptor of an unrecognized
\* type throws an error naming that type, before vnopts.normalize is
\* invoked and before anything is logged; nothing is returned.
C1_ThrowsNamingType ==
  (Called /\ \E i \in 1..Len(optionInfos) : Unrecognized(i))
    => /\ outcome.completion = "throw"
       /\ pc = "idle"
       /\ outcome.value.name = "Error"
       /\ outcome.value.message[1] = "Unexpected type "
       /\ \E i \in 1..Len(optionInfos) :
            Unrecognized(i) /\ outcome.value.message[2] = optionInfos[i].type
       /\ normalizeArgs = NoCall
       /\ logged = <<>>

\* C2: when every descriptor's type is one of the five recognized kinds,
\* schema construction does not throw, in API mode and in CLI mode,
\* whatever the other attributes are (a choice descriptor without choices
\* included).
C2_RecognizedNeverThrows ==
  (Called /\ \A i \in 1..Len(optionInfos) : ~Unrecognized(i))
    => outcome.completion # "throw"

\* C3: normalizeApiOptions builds in API mode for every opts, an opts with
\* isCLI: true included: no `_` schema, no alias schema, no CLI
\* pre-coercion, and the API descriptor.
C3_ApiFixesMode ==
  (call.fn = "normalizeApiOptions" /\ Delegated)
    => /\ ~CliMode
       /\ "AnySchema" \notin SchemaCtors
       /\ "AliasSchema" \notin SchemaCtors
       /\ ~Precoerced

\* C4: normalizeCliOptions builds in CLI mode for every opts, an opts with
\* isCLI: false included: the `_` schema first and the CLI descriptor,
\* with logger taken from opts.
C4_CliForcesMode ==
  (call.fn = "normalizeCliOptions" /\ Delegated)
    => /\ CliMode
       /\ Len(Schemas) >= 1
       /\ Schemas[1] = AnySchema
       /\ normalizeArgs.logger =
            (IF call.opts = Undefined THEN Undefined ELSE Get(call.opts.logger))

Aliased(i) == Truthy(optionInfos[i].alias)
AliasedBefore(i) == Cardinality({j \in 1..(i - 1) : Aliased(j)})
PrimaryAt(i) == IF CliMode THEN 1 + i + AliasedBefore(i) ELSE i

\* The schema kind of a descriptor: ArraySchema for an array option, else
\* the kind of its type.
PrimaryCtor(info) ==
  IF Truthy(info.array) THEN "ArraySchema"
  ELSE CASE info.type = "int" -> "IntegerSchema"
         [] info.type = "choice" -> "ChoiceSchema"
         [] info.type = "boolean" -> "BooleanSchema"
         [] info.type = "flag" -> "FlagSchema"
         [] OTHER -> "StringSchema"

\* C9: the schema list of d1..dn is, in CLI mode, the `_` schema, then for
\* each descriptor in order its primary schema, immediately followed by
\* its alias schema exactly when it declares a (non-empty) alias; in API
\* mode it is the n primary schemas in order, with no `_` and no alias
\* schema.  Its length is n, or 1 + n + the number of aliased descriptors.
C9_SchemaOrder ==
  Delegated =>
    LET n == Len(optionInfos)
    IN /\ Len(Schemas) = (IF CliMode THEN 1 + n + AliasedBefore(n + 1) ELSE n)
       /\ CliMode => Schemas[1] = AnySchema
       /\ ~CliMode => SchemaCtors \cap {"AnySchema", "AliasSchema"} = {}
       /\ \A i \in 1..n :
            /\ Schemas[PrimaryAt(i)].ctor = PrimaryCtor(optionInfos[i])
            /\ SchemaName(Schemas[PrimaryAt(i)]) = optionInfos[i].name
            /\ (CliMode /\ Aliased(i)) =>
                 /\ Schemas[PrimaryAt(i) + 1].ctor = "AliasSchema"
                 /\ Schemas[PrimaryAt(i) + 1].name = optionInfos[i].alias
                 /\ Schemas[PrimaryAt(i) + 1].sourceName = optionInfos[i].name

\* C9 witness: a CLI call built the schemas of two descriptors, the first
\* with an alias and the second without.
C9_Witness ==
  /\ Delegated /\ CliMode
  /\ Len(optionInfos) = 2 /\ Aliased(1) /\ ~Aliased(2)
  /\ Len(Schemas) = 4

\* a is in the default sort order.
IsSorted(a) == \A j \in 1..Len(a) : \A k \in j..Len(a) : ~StrLess(a[k].val, a[j].val)

\* a and b hold the same elements, each as often.
SameElements(a, b) ==
  /\ Len(a) = Len(b)
  /\ \A x \in {a[i] : i \in 1..Len(a)} :
       Cardinality({i \in 1..Len(a) : a[i] = x})
         = Cardinality({i \in 1..Len(b) : b[i] = x})

\* Every FlagSchema of the arguments holds the flag list in the order it
\* was collected in, and a sorted copy of it.
FlagsKept(args) ==
  \A i \in 1..Len(args.schemas) :
    LET s == ModuleSchema(args.schemas[i])
    IN s.ctor = "FlagSchema" =>
         /\ s.flags.val = CollectFlags(optionInfos)
         /\ s.choices = s.flags
         /\ IsSorted(s._flags.val)
         /\ SameElements(s._flags.val, s.flags.val)

\* C10: a call, returning or throwing, leaves the descriptor list and every
\* descriptor in it (choices and redirecting choice records included) as
\* they were; a FlagSchema sorts only its own copy of the flag list; two
\* successive calls in the same mode on the list build the same schemas.
C10_DescriptorsReadOnly ==
  [][/\ optionInfos' = optionInfos
     /\ normalizeArgs' # NoCall => FlagsKept(normalizeArgs')
     /\ (/\ normalizeArgs # NoCall /\ normalizeArgs' # NoCall
         /\ normalizeArgs'.descriptor = normalizeArgs.descriptor)
          => normalizeArgs'.schemas = normalizeArgs.schemas]_vars

\* C10 witness: a call has returned on a list with a redirecting choice
\* record and a flag option whose flags were not collected in sorted order.
C10_Witness ==
  /\ pc = "idle" /\ outcome.completion = "normal"
  /\ \E i \in 1..Len(optionInfos) :
       /\ optionInfos[i].type = "choice"
       /\ optionInfos[i].choices = Arr(<<ChoiceX, ChoiceY>>)
  /\ \E i \in 1..Len(Schemas) :
       /\ ModuleSchema(Schemas[i]).ctor = "FlagSchema"
       /\ ~IsSorted(ModuleSchema(Schemas[i]).flags.val)

\* ------------------------------------------- the unknown-option policy
MaxPassThrough == 2     \* longest passThrough array

KeyK == Str(<<"k">>)
KeyM == Str(<<"m">>)
UnknownKeys == {KeyK, KeyM, NameAt(1), Str(<<"x">>)}
UnknownValues == {Str(<<"v">>), Bool(FALSE), Undefined}

\* The arrays of at most MaxPassThrough names out of k, m and a.
PassThroughArrays ==
  UNION {{Arr(a) : a \in [1..n -> {KeyK, KeyM, NameAt(1)}]} :
           n \in 0..MaxPassThrough}

PassThroughs ==
  {Absent, Undefined, Null, Bool(FALSE), Bool(TRUE), Num(0), Num(1),
   Str(<<>>), KeyK} \cup PassThroughArrays

UnknownOpts ==
  {Undefined}
  \cup {Opts(Logger, c, pt) : c \in {Absent, Bool(TRUE)}, pt \in PassThroughs}

\* Two descriptors' worth of shapes: a bare boolean, a path with an alias.
UnknownShapes ==
  {sh \in BuildShapes :
     \/ sh.t.type = "boolean" /\ sh.p.alias = Undefined
     \/ sh.t.type = "path" /\ sh.p.alias = Str(<<"x">>)}

InitUnknown == InitWith(InfoLists(UnknownShapes))

NextUnknown ==
  \/ \E opts \in UnknownOpts : NormalizeApiOptions(opts)
  \/ \E opts \in UnknownOpts : NormalizeCliOptions(opts)
  \/ \E key \in UnknownKeys, value \in UnknownValues : Unknown(key, value)
  \/ NormalizeReturn

SpecUnknown == InitUnknown /\ [][NextUnknown]_vars

\* The passThrough the caller gave (undefined when opts or the property is
\* missing).
GivenPassThrough ==
  IF call.opts = Undefined THEN Undefined ELSE Get(call.opts.passThrough)

\* C5: the unknown-option policy depends on passThrough alone: falsy gives
\* the engine's nearest-match handler; an array (the empty one included)
\* gives {k: v} for an unknown key k in the array and undefined for any
\* other; any other truthy value gives {k: v} for every unknown key.  The
\* value is unchanged and k is the only key.
C5_UnknownPolicy ==
  Delegated =>
    LET pt == GivenPassThrough
        falsy == pt \in {Undefined, Null, Bool(FALSE), Num(0), Str(<<>>)}
        array == pt.kind = "array"
    IN /\ falsy => normalizeArgs.unknown.fn = "levenUnknownHandler"
       /\ ~falsy => normalizeArgs.unknown.fn # "levenUnknownHandler"
       /\ (ret.fn = "unknown" /\ ~falsy) =>
            IF array /\ \A i \in 1..Len(pt.val) : pt.val[i] # ret.key
            THEN ret.result = Undefined
            ELSE /\ ret.result.kind = "object"
                 /\ ret.result.props = {<<ret.key, ret.value>>}

\* C5 witness: with passThrough the empty array, the handler was called
\* for an unknown key and dropped it.
C5_Witness ==
  /\ Delegated /\ ret.fn = "unknown"
  /\ GivenPassThrough = Arr(<<>>)
  /\ ret.result = Undefined

\* ------------------------------------------------ FlagSchema.preprocess
MaxFlagInfos == 2       \* longest descriptor list with flag options
MaxValueLen == 2        \* longest string given to preprocess

\* The strings over a and b of at most n characters.
RECURSIVE StringsUpTo(_)
StringsUpTo(n) ==
  IF n = 0 THEN {<<>>}
  ELSE StringsUpTo(n - 1)
       \cup {<<c>> \o s : c \in {"a", "b"}, s \in {t \in StringsUpTo(n - 1) : Len(t) = n - 1}}

FlagNames == {Str(<<>>), Str(<<"a">>), Str(<<"a", "b">>)}

\* Flag and boolean options, named from FlagNames, with or without an
\* alias, a description and an opposite description.
FlagInfos ==
  {Info(name, type, Undefined, alias, Undefined, d, o, Undefined, Undefined,
        Undefined) :
     name \in FlagNames, type \in {"flag", "boolean"},
     alias \in {Undefined, Str(<<"b">>)},
     d \in {Undefined, Str(<<"d">>)}, o \in {Undefined, Str(<<"o">>)}}

\* The lists of at most MaxFlagInfos of them with distinct names.
FlagLists ==
  UNION {{l \in [1..n -> FlagInfos] :
            \A i \in 1..n : \A j \in 1..n : l[i].name = l[j].name => i = j} :
           n \in 0..MaxFlagInfos}

PreprocessValues ==
  {Str(s) : s \in StringsUpTo(MaxValueLen)} \cup {Num(1), Undefined}

InitFlag == InitWith(FlagLists)

NextFlag ==
  \/ NormalizeApiOptions(Undefined)
  \/ NormalizeCliOptions(Opts(Logger, Absent, Absent))
  \/ \E i \in 1..MaxFlagInfos + 1, value \in PreprocessValues : Preprocess(i, value)
  \/ NormalizeReturn

SpecFlag == InitFlag /\ [][NextFlag]_vars

\* The known flags of the FlagSchema the last preprocess was called on.
KnownFlags ==
  LET f == ModuleSchema(Schemas[ret.schema]).choices.val
  IN {f[i] : i \in 1..Len(f)}

CloseFlags == {f \in KnownFlags : leven(f.val, ret.value.val) < Threshold}

\* C6: preprocess returns the first known flag, in sorted order, at
\* distance < 3 of the value, with exactly one warning, when the value is
\* a non-empty string that is no known flag and such a flag exists; in
\* every other case it returns the value unchanged with no warning.
C6_PreprocessSuggests ==
  ret.fn = "preprocess" =>
    IF /\ ret.value.kind = "string" /\ Len(ret.value.val) # 0
       /\ ret.value \notin KnownFlags
       /\ CloseFlags # {}
    THEN /\ ret.result \in CloseFlags
         /\ \A f \in CloseFlags : ~StrLess(f.val, ret.result.val)
         /\ ret.warned = 1
    ELSE /\ ret.result = ret.value
         /\ ret.warned = 0

\* C6 with the empty flag set aside: the claim holds of every flag list that
\* does not hold the empty string.
C6_HoldsWithoutEmptyFlag ==
  (ret.fn = "preprocess" /\ Str(<<>>) \notin KnownFlags) => C6_PreprocessSuggests

\* ---------------------------------------------- CLI pair rendering
MaxKeyLen == 2          \* longest key rendered

PairKeys == StringsUpTo(MaxKeyLen)

PairValues ==
  {Bool(FALSE), Bool(TRUE), Str(<<>>), Str(<<"y">>), Str(<<"a", "b">>),
   Num(0), Num(7), Undefined, Null}

\* One list shape is enough here: the rendering does not read the schemas.
PairShapes ==
  {sh \in BuildShapes : sh.t.type = "boolean" /\ sh.p.alias = Undefined}

InitPair == InitWith(InfoLists(PairShapes))

NextPair ==
  \/ \E opts \in BuildOpts : NormalizeApiOptions(opts)
  \/ \E opts \in BuildOpts : NormalizeCliOptions(opts)
  \/ \E key \in PairKeys, value \in PairValues : Pair(key, value)
  \/ NormalizeReturn

SpecPair == InitPair /\ [][NextPair]_vars

\* The key as the claim renders it: -k for one character, --key for more.
RenderedKey(key) ==
  IF Len(key) = 1 THEN <<"-", key[1]>> ELSE <<"-", "-">> \o key

\* C7: a pair renders as --no-<key> for the value false, as the rendered
\* key for true, as the rendered key and " without an argument" for the
\* empty string, and as <rendered-key>=<value> for any other value; the
\* four cases are exhaustive and exclusive.
C7_PairRendering ==
  ret.fn = "pair" =>
    LET k == ret.key
        v == ret.value
        isFalse == v.kind = "boolean" /\ ~v.val
        isTrue == v.kind = "boolean" /\ v.val
        isEmpty == v.kind = "string" /\ Len(v.val) = 0
        other == ~isFalse /\ ~isTrue /\ ~isEmpty
        text == CASE v.kind = "string" -> v.val
                  [] v.kind = "number" -> <<Digits[v.val + 1]>>
                  [] v.kind = "null" -> <<"n", "u", "l", "l">>
                  [] OTHER -> <<"u", "n", "d", "e", "f", "i", "n", "e", "d">>
    IN /\ Cardinality({c \in {<<1, isFalse>>, <<2, isTrue>>, <<3, isEmpty>>,
                               <<4, other>>} : c[2]}) = 1
       /\ isFalse => ret.result = <<"-", "-", "n", "o", "-">> \o k
       /\ (isTrue /\ Len(k) >= 1) => ret.result = RenderedKey(k)
       /\ (isEmpty /\ Len(k) >= 1) =>
            ret.result = RenderedKey(k) \o <<" without an argument">>
       /\ (other /\ Len(k) >= 1) =>
            ret.result = RenderedKey(k) \o <<"=">> \o text

\* C7 witness: the empty string was rendered for a key of one character.
C7_Witness ==
  /\ ret.fn = "pair" /\ ret.key = <<"a">> /\ ret.value = Str(<<>>)
  /\ ret.result = <<"-", "a", " without an argument">>

\* ------------------------------------------------ the validate override
MaxValidateInfos == 1   \* longest descriptor list whose validators are called

\* Exception predicates: one accepting nothing, one accepting only
\* "s", one accepting undefined and "s".
Exceptions == {Undefined, Fn({}), Fn({Special}), Fn({Undefined, Special})}

ValidateInfos ==
  {Info(NameAt(1), type, array, Undefined,
        IF type = "choice" THEN Arr(<<ChoiceX, ChoiceY>>) ELSE Undefined,
        Str(<<"d">>), Undefined, exception, Undefined, Undefined) :
     type \in RecognizedTypes, array \in {Undefined, Bool(TRUE)},
     exception \in Exceptions}

\* Lists of at most MaxValidateInfos of them, named by position.
ValidateLists ==
  UNION {{[i \in 1..n |-> [l[i] EXCEPT !.name = NameAt(i)]] :
            l \in [1..n -> ValidateInfos]} : n \in 0..MaxValidateInfos}

ValidateValues ==
  {Undefined, Num(4), Bool(TRUE), Special, ChoiceX, NameAt(1), Str(<<"y">>)}

InitValidate == InitWith(ValidateLists)

NextValidate ==
  \/ NormalizeApiOptions(Undefined)
  \/ NormalizeCliOptions(Undefined)
  \/ \E i \in 1..MaxValidateInfos + 1, value \in ValidateValues : Validate(i, value)
  \/ NormalizeReturn

SpecValidate == InitValidate /\ [][NextValidate]_vars

\* The schema the last validate was called on, and its descriptor.
Validated == ModuleSchema(Schemas[ret.schema])
ValidatedInfo ==
  CHOOSE info \in {optionInfos[i] : i \in 1..Len(optionInfos)} :
    info.name = Validated.name

\* C8 as claimed: with or without an exception predicate, the validator of
\* a descriptor of a recognized type accepts undefined.
C8_UndefinedAlwaysValid ==
  (ret.fn = "validate" /\ ret.value = Undefined) => ret.result

\* C8 as amended: without an exception predicate the validator accepts
\* undefined; with one it accepts a value, undefined included, exactly when
\* the predicate or the schema's normal validation accepts it.  A value is
\* rejected only if it fails the normal validation, the predicate (if any)
\* does not accept it, and it is defined or there is a predicate.
C8_UndefinedValidWithoutException ==
  ret.fn = "validate" =>
    LET v == ret.value
        e == ValidatedInfo.exception
        normal == SchemaValidate(Validated, v)
    IN /\ (e = Undefined /\ v = Undefined) => ret.result
       /\ e # Undefined => (ret.result <=> (v \in e.accepts \/ normal))
       /\ ~ret.result =>
            /\ ~normal
            /\ e # Undefined => v \notin e.accepts
            /\ e = Undefined => v # Undefined

\* C8 witness: an integer option without an exception predicate had
\* undefined validated, and accepted.
C8_Witness ==
  /\ ret.fn = "validate" /\ ret.value = Undefined /\ ret.result
  /\ ValidatedInfo.type = "int"
  /\ ValidatedInfo.exception = Undefined

=============================================================================
